---- MODULE Spec2Model ----
(***************************************************************************)
(* Model of src/main.js: the dungeon generator, the per-frame movement     *)
(* simulation with per-axis wall collision, the proximity combat and the   *)
(* GameOver / restart cycle.                                               *)
(*                                                                         *)
(* Numbers.  Positions and distances are counted in subdivisions of a grid *)
(* unit, UNIT to the unit, and a coordinate is an estimate of the double   *)
(* the program holds (see Doubles).  Times are integer milliseconds, so a  *)
(* speed of s units per second moves s * dt_ms position subdivisions in    *)
(* dt_ms milliseconds.                                                     *)
(* A Math.random() draw is an integer r in 0..RandDen-1 standing for the   *)
(* value r / RandDen in [0, 1).                                            *)
(***************************************************************************)
EXTENDS Integers, Sequences, FiniteSets, TLC

\* ------------------------------------------------------------------------
\* Program constants (src/main.js lines 6-17)
DUNGEON_WIDTH == 30
DUNGEON_HEIGHT == 30
MAX_ROOMS == 6
ROOM_MIN_SIZE == 3
ROOM_MAX_SIZE == 6
PLAYER_MAX_HEALTH == 100
ENEMY_MAX_HEALTH == 50
ENEMY_DAMAGE == 10
ATTACK_INTERVAL == 1000
PLAYER_ATTACK_DAMAGE == 50

\* Fixed-point resolution of positions: subdivisions per grid unit, which is
\* also the number of milliseconds per second of clock.getDelta().
UNIT == 1000
\* PLAYER_SPEED = 3 and ENEMY_SPEED = 1.5 units per second, attackRange = 1.5
\* and hitRange = 1.0 units, in position subdivisions.
PLAYER_SPEED == 3 * UNIT
ENEMY_SPEED == (3 * UNIT) \div 2
attackRange == (3 * UNIT) \div 2
hitRange == UNIT

\* Denominator of a Math.random() draw.
RandDen == 1000

\* ------------------------------------------------------------------------
\* Arithmetic helpers

Min(a, b) == IF a <= b THEN a ELSE b
Max(a, b) == IF a >= b THEN a ELSE b

\* Math.sqrt on fixed-point operands: the integer square root.
RECURSIVE IsqrtIter(_, _, _)
IsqrtIter(n, lo, hi) ==
  IF lo >= hi THEN lo
  ELSE LET mid == (lo + hi + 1) \div 2
       IN  IF mid * mid <= n THEN IsqrtIter(n, mid, hi)
                             ELSE IsqrtIter(n, lo, mid - 1)
Isqrt(n) == IsqrtIter(n, 0, 46340)

\* Math.floor(Math.random() * n) for the draw r.
RandInt(r, n) == (r * n) \div RandDen

\* ------------------------------------------------------------------------
\* Dungeon generation (generateDungeon, lines 125-208)
\* A grid is a function [0..height-1 -> [0..width-1 -> {0, 1}]], indexed
\* grid[y][x]; 0 = wall, 1 = floor.  rooms is the sequence of room centers
\* (rooms[1] is the code's rooms[0]).

\* Mutant of WallGrid: the grid starts as Floor.
WallGrid_AllFloor(width, height) == [y \in 0 .. height - 1 |-> [x \in 0 .. width - 1 |-> 1]]

\* The grid initialised with walls (lines 127-133).
WallGrid(width, height) == [y \in 0 .. height - 1 |-> [x \in 0 .. width - 1 |-> 0]]

carveRoom(grid, x, y, w, h) ==
  [yy \in DOMAIN grid |->
     [xx \in DOMAIN grid[yy] |->
        IF yy >= y /\ yy < y + h /\ xx >= x /\ xx < x + w
        THEN 1 ELSE grid[yy][xx]]]

\* Mutant of roomOverlaps: only the top-left cell of the candidate is tested.
roomOverlaps_CornerOnly(grid, x, y, w, h) == grid[y][x] = 1

\* The overlap test of a candidate (lines 152-160).
roomOverlaps(grid, x, y, w, h) ==
  \E yy \in y .. y + h - 1 : \E xx \in x .. x + w - 1 : grid[yy][xx] = 1

\* Mutant of roomCenter: the corner past the room instead of its middle.
roomCenter_FarCorner(x, y, w, h) == [cx |-> x + w, cy |-> y + h]

\* Math.floor(x + w/2), Math.floor(y + h/2) (lines 165-167)
roomCenter(x, y, w, h) ==
  [cx |-> (2 * x + w) \div 2, cy |-> (2 * y + h) \div 2]

\* Mutant of drawOffset: the offset ranges over 1 .. extent - size - 1.
drawOffset_UpToBorder(r, extent, size) == RandInt(r, extent - size - 1) + 1

\* Mutant of drawOffset: the + 1 is missing, so the offset starts at 0.
drawOffset_FromZero(r, extent, size) == RandInt(r, extent - size - 2)

\* Math.floor(Math.random() * (extent - size - 2)) + 1 (lines 149-150): the
\* top-left coordinate of a room of the given size along an axis of the given
\* extent, for the draw r.
drawOffset(r, extent, size) == RandInt(r, extent - size - 2) + 1

\* The candidate rectangle of one placement attempt (lines 147-150), from the
\* four draws rnd[k+1] .. rnd[k+4].
candidateRoom(rnd, k, width, height, roomMin, roomMax) ==
  LET w == RandInt(rnd[k + 1], roomMax - roomMin + 1) + roomMin
      h == RandInt(rnd[k + 2], roomMax - roomMin + 1) + roomMin
  IN  [x |-> drawOffset(rnd[k + 3], width, w),
       y |-> drawOffset(rnd[k + 4], height, h),
       w |-> w, h |-> h]

\* One iteration of the placement loop (lines 146-168).  st = [grid, rooms, k]
\* where k is the number of random draws consumed so far.
placeRoom(st, rnd, width, height, roomMin, roomMax) ==
  LET c == candidateRoom(rnd, st.k, width, height, roomMin, roomMax)
  IN  IF roomOverlaps(st.grid, c.x, c.y, c.w, c.h)
      THEN [st EXCEPT !.k = st.k + 4]
      ELSE [grid |-> carveRoom(st.grid, c.x, c.y, c.w, c.h),
            rooms |-> Append(st.rooms, roomCenter(c.x, c.y, c.w, c.h)),
            k |-> st.k + 4]

RECURSIVE placeRooms(_, _, _, _, _, _, _, _)
placeRooms(i, st, rnd, width, height, maxRooms, roomMin, roomMax) ==
  IF i >= maxRooms THEN st
  ELSE placeRooms(i + 1, placeRoom(st, rnd, width, height, roomMin, roomMax),
                  rnd, width, height, maxRooms, roomMin, roomMax)

\* grid[y][x] = 1 for x from min(xa, xb) to max(xa, xb)
carveHorizontal(grid, y, xa, xb) ==
  [yy \in DOMAIN grid |->
     [xx \in DOMAIN grid[yy] |->
        IF yy = y /\ xx >= Min(xa, xb) /\ xx <= Max(xa, xb)
        THEN 1 ELSE grid[yy][xx]]]

\* grid[y][x] = 1 for y from min(ya, yb) to max(ya, yb)
carveVertical(grid, x, ya, yb) ==
  [yy \in DOMAIN grid |->
     [xx \in DOMAIN grid[yy] |->
        IF xx = x /\ yy >= Min(ya, yb) /\ yy <= Max(ya, yb)
        THEN 1 ELSE grid[yy][xx]]]

\* Mutant of carveCorridor: the horizontal leg is not carved.
carveCorridor_VerticalOnly(grid, r1, r2, coin) ==
  IF 2 * coin < RandDen
  THEN carveVertical(grid, r2.cx, r1.cy, r2.cy)
  ELSE carveVertical(grid, r1.cx, r1.cy, r2.cy)

\* The corridor between r1 = rooms[i-1] and r2 = rooms[i] (lines 173-203);
\* coin is the draw compared with 0.5.
carveCorridor(grid, r1, r2, coin) ==
  IF 2 * coin < RandDen
  THEN carveVertical(carveHorizontal(grid, r1.cy, r1.cx, r2.cx), r2.cx, r1.cy, r2.cy)
  ELSE carveHorizontal(carveVertical(grid, r1.cx, r1.cy, r2.cy), r2.cy, r1.cx, r2.cx)

RECURSIVE connectRooms(_, _, _)
connectRooms(i, st, rnd) ==
  IF i > Len(st.rooms) THEN st
  ELSE connectRooms(i + 1,
                    [st EXCEPT !.grid = carveCorridor(st.grid, st.rooms[i - 1],
                                                      st.rooms[i], rnd[st.k + 1]),
                               !.k = st.k + 1],
                    rnd)

generateDungeon(width, height, maxRooms, roomMin, roomMax, rnd) ==
  LET placed == placeRooms(0, [grid |-> WallGrid(width, height), rooms |-> <<>>, k |-> 0],
                           rnd, width, height, maxRooms, roomMin, roomMax)
      done == connectRooms(2, placed, rnd)
  IN  [grid |-> done.grid, rooms |-> done.rooms]

\* ------------------------------------------------------------------------
\* Doubles
\* Positions, steps and distances are doubles in the code.  The model keeps
\* every coordinate, in the state and within a frame, as an estimate
\* [lo, hi, kind] in position subdivisions:
\*   "exact"      lo = hi, a multiple of 1/8 unit, and the double is that
\*                number exactly;
\*   "nearest"    lo = hi, and the double is the one nearest to lo
\*                subdivisions (a literal that no double holds exactly);
\*   "bounds"     the double lies between lo and hi, the ends included, up
\*                to the rounding of the last places (a few ulps beyond an
\*                end).
\* A test of the code (the cell a coordinate rounds to, a difference against
\* zero, a distance against a range) has the outcome that every double of
\* the estimates gives; where these doubles disagree, every outcome is
\* possible and the operator has one result for each.  A state of the model
\* so stands for every state of the program whose doubles the estimates
\* admit, and a step of the model for every step the program takes from one
\* of them.

\* A coordinate, or a time in seconds, that a double holds exactly: a
\* multiple of 1/8.
Exact(v) == v % (UNIT \div 8) = 0

\* The estimate of the double nearest to v subdivisions (a literal, or an
\* integer cell index).
at(v) == [lo |-> v, hi |-> v, kind |-> IF Exact(v) THEN "exact" ELSE "nearest"]

\* The displacement 0.
noStep == [lo |-> 0, hi |-> 0, kind |-> "exact"]

\* The kind of a sum or a difference of two doubles: exact when both are.
joint(a, b) == IF a.kind = "exact" /\ b.kind = "exact" THEN "exact" ELSE "bounds"

\* The estimate of the sum of a coordinate and a step.
plus(a, s) == [lo |-> a.lo + s.lo, hi |-> a.hi + s.hi, kind |-> joint(a, s)]

\* The estimate of the difference a - b of two coordinates; it is 0 for
\* the same double.
minus(a, b) ==
  IF a.kind = "nearest" /\ a = b THEN noStep
  ELSE [lo |-> a.lo - b.hi, hi |-> a.hi - b.lo, kind |-> joint(a, b)]

\* A step of sign sgn whose magnitude is estimated by mag.
signedStep(sgn, mag) ==
  IF sgn >= 0 THEN mag
  ELSE [lo |-> -mag.hi, hi |-> -mag.lo, kind |-> mag.kind]

\* The least and the greatest magnitude of a difference between lo and hi;
\* the greatest is capped at the extent of the dungeon.
minAbs(lo, hi) == IF lo > 0 THEN lo ELSE IF hi < 0 THEN -hi ELSE 0
maxAbs(lo, hi) == Min(Max(-lo, hi), DUNGEON_WIDTH * UNIT)

\* ------------------------------------------------------------------------
\* Movement and collision (animate, lines 337-410)
\* A position is a record [x, z] of two estimates.  enemyMesh also carries
\* defined, FALSE once the mesh has been removed (enemyMesh = undefined).

\* Math.floor(v + 0.5)
Cell(v) == (v + (UNIT \div 2)) \div UNIT

\* The cells Math.floor(v + 0.5) can be for the doubles v of an estimate
\* (lines 361-362, 370-371, 391-392, 399-400).  A double given by bounds
\* can lie a few ulps below lo, and one a few ulps below a cell boundary is
\* rounded onto it by the addition of 0.5; a cell boundary is a multiple of
\* 1/8, so a double of kind "nearest" is a subdivision or more away from it.
cellsOf(e) ==
  IF e.kind = "bounds" THEN Cell(e.lo - 1) .. Cell(e.hi) ELSE {Cell(e.lo)}

\* dungeonGrid[cellZ] && dungeonGrid[cellZ][cellX] === 1
IsFloor(grid, cellX, cellZ) ==
  /\ cellZ \in DOMAIN grid
  /\ cellX \in DOMAIN grid[cellZ]
  /\ grid[cellZ][cellX] = 1

\* Mutant of moveWithCollision: a blocked x step also drops the z step.
moveWithCollision_XBlocksZ(grid, pos, tryX, stepX, tryZ, stepZ) ==
  LET newX == plus(pos.x, stepX)
      newZ == plus(pos.z, stepZ)
      xs == IF tryX
            THEN {IF IsFloor(grid, cellX, cellZ)
                  THEN [e |-> newX, cell |-> cellX, blocked |-> FALSE]
                  ELSE [e |-> pos.x, cell |-> oldX, blocked |-> TRUE] :
                    cellX \in cellsOf(newX), cellZ \in cellsOf(pos.z),
                    oldX \in cellsOf(pos.x)}
            ELSE {[e |-> pos.x, cell |-> oldX, blocked |-> FALSE] :
                    oldX \in cellsOf(pos.x)}
      zs(x) == IF tryZ /\ ~x.blocked
               THEN {IF IsFloor(grid, x.cell, cellZ) THEN newZ ELSE pos.z :
                       cellZ \in cellsOf(newZ)}
               ELSE {pos.z}
  IN  UNION {{[pos EXCEPT !.x = x.e, !.z = z] : z \in zs(x)} : x \in xs}

\* The per-axis commit shared by player and enemy: x first, then z against
\* the x already committed (lines 358-375 and 389-404).  stepX and stepZ are
\* the estimates of the signed displacements; an axis with a zero direction
\* is not attempted.  The result is the set of the positions the frame can
\* leave, one for each choice of the cells the coordinates can round to.
moveWithCollision(grid, pos, tryX, stepX, tryZ, stepZ) ==
  LET newX == plus(pos.x, stepX)
      newZ == plus(pos.z, stepZ)
      xs == IF tryX
            THEN {IF IsFloor(grid, cellX, cellZ)
                  THEN [e |-> newX, cell |-> cellX, blocked |-> FALSE]
                  ELSE [e |-> pos.x, cell |-> oldX, blocked |-> TRUE] :
                    cellX \in cellsOf(newX), cellZ \in cellsOf(pos.z),
                    oldX \in cellsOf(pos.x)}
            ELSE {[e |-> pos.x, cell |-> oldX, blocked |-> FALSE] :
                    oldX \in cellsOf(pos.x)}
      zs(x) == IF tryZ
               THEN {IF IsFloor(grid, x.cell, cellZ) THEN newZ ELSE pos.z :
                       cellZ \in cellsOf(newZ)}
               ELSE {pos.z}
  IN  UNION {{[pos EXCEPT !.x = x.e, !.z = z] : z \in zs(x)} : x \in xs}

\* The player's step of one frame (lines 346-356): per axis, whether the axis
\* is attempted (moveX !== 0, moveZ !== 0) and the estimate of its signed
\* displacement.  deltaTime is in milliseconds.  On one axis the displacement
\* is moveDistance, exact when deltaTime is; on both it is moveDistance /
\* sqrt(2), which is no whole number of subdivisions unless it is 0: it lies
\* between the integer square root of moveDistance^2 / 2 and its successor.
playerStep(keys, deltaTime) ==
  LET moveX == (IF keys.right THEN 1 ELSE 0) - (IF keys.left THEN 1 ELSE 0)
      moveZ == (IF keys.down THEN 1 ELSE 0) - (IF keys.up THEN 1 ELSE 0)
      moveDistance == (PLAYER_SPEED * deltaTime) \div UNIT
      half == moveDistance \div 2
      root == Isqrt(2 * half * (half + (moveDistance % 2)))
      mag == IF moveDistance = 0 THEN noStep
             ELSE IF moveX # 0 /\ moveZ # 0
                  THEN [lo |-> root, hi |-> root + 1, kind |-> "bounds"]
                  ELSE [lo |-> moveDistance, hi |-> moveDistance,
                        kind |-> IF Exact(deltaTime) THEN "exact" ELSE "bounds"]
  IN  [tryX |-> moveX # 0, x |-> signedStep(moveX, mag),
       tryZ |-> moveZ # 0, z |-> signedStep(moveZ, mag)]

\* Player movement (lines 345-376): the positions the frame can leave.
playerMove(grid, pos, keys, deltaTime) ==
  LET s == playerStep(keys, deltaTime)
  IN  moveWithCollision(grid, pos, s.tryX, s.x, s.tryZ, s.z)

\* The greatest power of two, from s up to 2^14, by which a distance of
\* square d2 can be scaled with its scaled square staying below UNIT^3.
RECURSIVE distScale(_, _)
distScale(d2, s) ==
  IF s < 16384 /\ d2 <= (UNIT * UNIT * UNIT) \div (4 * s * s)
  THEN distScale(d2, 2 * s) ELSE s

\* Bounds, in whole subdivisions, of (c / dist) * step for the component
\* c > 0, the other component o >= 0 (dist = sqrt(c*c + o*o)) and step =
\* halfSteps / 2.  When dist is a whole number of subdivisions the quotient
\* is taken exactly; otherwise dist is irrational: scaled by the power of two
\* distScale it lies between the integer square root and its successor,
\* which bounds the quotient from both sides.
share(c, o, halfSteps) ==
  LET d2 == c * c + o * o
      whole == Isqrt(d2)
      scale == distScale(d2, 1)
      dist == Isqrt(d2 * scale * scale)
  IN  IF whole * whole = d2
      THEN [lo |-> (c * halfSteps) \div (2 * whole),
            hi |-> (c * halfSteps + 2 * whole - 1) \div (2 * whole)]
      ELSE [lo |-> (c * scale * halfSteps) \div (2 * (dist + 1)),
            hi |-> (c * scale * halfSteps) \div (2 * dist) + 1]

\* The outcomes of dist > 0 (line 383) for the enemy at epos and the player
\* at p: dist is 0 only when both differences are.
apart(epos, p) ==
  LET dx == minus(p.x, epos.x)
      dz == minus(p.z, epos.z)
  IN  IF dx.lo > 0 \/ dx.hi < 0 \/ dz.lo > 0 \/ dz.hi < 0 THEN {TRUE}
      ELSE IF dx.kind = "exact" /\ dz.kind = "exact" THEN {FALSE}
      ELSE BOOLEAN

\* The enemy's step of one frame toward the player at p (lines 380-387 and
\* the tests of lines 389 and 397), for dist > 0: per axis, whether the axis
\* is attempted (moveX !== 0, moveZ !== 0) and the estimate of its signed
\* displacement (d / dist) * step, with step = halfSteps / 2 (ENEMY_SPEED is
\* 1.5).  The displacement grows with d and, in magnitude, falls with the
\* magnitude of the other difference, so its bounds are taken at the ends of
\* the estimates of dx and dz.  Where both differences can be 0 or next to
\* it, the direction is open and the displacement is anything up to the
\* whole step.  A difference that can be 0 and need not be gives both
\* outcomes of the test against 0, so the result is a set of steps.
enemyStep(epos, p, deltaTime) ==
  LET dx == minus(p.x, epos.x)
      dz == minus(p.z, epos.z)
      halfSteps == (2 * ENEMY_SPEED * deltaTime) \div UNIT
      step == (halfSteps + 1) \div 2
      around == dx.lo <= 0 /\ dx.hi >= 0 /\ dz.lo <= 0 /\ dz.hi >= 0
      move(d, o) ==
        LET near == minAbs(o.lo, o.hi)
            far == Max(-o.lo, o.hi)
        IN  IF around THEN [lo |-> -step, hi |-> step, kind |-> "bounds"]
            ELSE [lo |-> IF d.lo < 0 THEN -share(-d.lo, near, halfSteps).hi
                         ELSE IF d.lo = 0 THEN 0
                         ELSE share(d.lo, far, halfSteps).lo,
                  hi |-> IF d.hi > 0 THEN share(d.hi, near, halfSteps).hi
                         ELSE IF d.hi = 0 THEN 0
                         ELSE -share(-d.hi, far, halfSteps).lo,
                  kind |-> IF /\ d.kind = "exact" /\ o.kind = "exact" /\ o.lo = 0
                              /\ Exact(deltaTime) /\ halfSteps % 2 = 0
                           THEN "exact" ELSE "bounds"]
      tries(d) == IF d.lo > 0 \/ d.hi < 0 THEN {TRUE}
                  ELSE IF d.kind = "exact" THEN {FALSE}
                  ELSE BOOLEAN
  IN  {[tryX |-> tx /\ halfSteps # 0, x |-> IF tx THEN move(dx, dz) ELSE noStep,
        tryZ |-> tz /\ halfSteps # 0, z |-> IF tz THEN move(dz, dx) ELSE noStep] :
         tx \in tries(dx), tz \in tries(dz)}

\* Enemy movement (lines 379-406): a straight-line chase of the player at p;
\* the positions the frame can leave.
enemyMove(grid, epos, p, deltaTime) ==
  UNION {IF dist THEN UNION {moveWithCollision(grid, epos, s.tryX, s.x, s.tryZ, s.z) :
                               s \in enemyStep(epos, p, deltaTime)}
                 ELSE {epos} : dist \in apart(epos, p)}

\* ------------------------------------------------------------------------
\* Combat

Undefined == [defined |-> FALSE, x |-> at(0), z |-> at(0)]

\* The least and the greatest dx*dx + dz*dz between two positions (lines
\* 273-275 and 293-295) over the doubles of their estimates.
nearSq(p, e) ==
  LET dx == minus(p.x, e.x)
      dz == minus(p.z, e.z)
      nx == Min(minAbs(dx.lo, dx.hi), DUNGEON_WIDTH * UNIT)
      nz == Min(minAbs(dz.lo, dz.hi), DUNGEON_WIDTH * UNIT)
  IN  nx * nx + nz * nz

farSq(p, e) ==
  LET dx == minus(p.x, e.x)
      dz == minus(p.z, e.z)
  IN  maxAbs(dx.lo, dx.hi) * maxAbs(dx.lo, dx.hi)
        + maxAbs(dz.lo, dz.hi) * maxAbs(dz.lo, dz.hi)

\* distSq <= range * range as the doubles of lines 273-277 and 293-297
\* compute it, for the positions p and e: "in" or "out" when every double
\* of the estimates gives that outcome, "either" otherwise.  For exact
\* coordinates the comparison is the exact one.  For others a distSq off
\* range * range by a whole subdivision is decided, and one that can be
\* range * range is not: the distSq computed from the doubles lies within a
\* few ulps on either side of it.
rangeTest(p, e, range) ==
  IF joint(p.x, p.z) = "exact" /\ joint(e.x, e.z) = "exact"
  THEN IF nearSq(p, e) <= range * range THEN "in" ELSE "out"
  ELSE IF farSq(p, e) < range * range THEN "in"
       ELSE IF nearSq(p, e) > range * range THEN "out"
       ELSE "either"

\* The comparison with the outcome fp where the estimates leave it open.
withinRange(p, e, range, fp) ==
  \/ rangeTest(p, e, range) = "in"
  \/ rangeTest(p, e, range) = "either" /\ fp

\* The outcomes fp of the comparison for the positions p and e.
roundings(p, e, range) ==
  IF rangeTest(p, e, range) = "either" THEN BOOLEAN ELSE {TRUE}

\* Mutant of playerAttack: the range test is strict, so distance exactly 1.5
\* misses.
playerAttack_StrictRange(pm, em, eh, fp) ==
  IF ~em.defined \/ eh <= 0 THEN [enemyMesh |-> em, enemyHealth |-> eh]
  ELSE IF withinRange(pm, em, attackRange, fp)
          /\ nearSq(pm, em) # attackRange * attackRange
       THEN IF eh - PLAYER_ATTACK_DAMAGE <= 0
            THEN [enemyMesh |-> Undefined, enemyHealth |-> 0]
            ELSE [enemyMesh |-> em, enemyHealth |-> eh - PLAYER_ATTACK_DAMAGE]
       ELSE [enemyMesh |-> em, enemyHealth |-> eh]

\* Mutant of playerAttack: a defeated enemy keeps its mesh.
playerAttack_KeepsMesh(pm, em, eh, fp) ==
  IF ~em.defined \/ eh <= 0 THEN [enemyMesh |-> em, enemyHealth |-> eh]
  ELSE IF withinRange(pm, em, attackRange, fp)
       THEN [enemyMesh |-> em,
             enemyHealth |-> IF eh - PLAYER_ATTACK_DAMAGE <= 0 THEN 0
                             ELSE eh - PLAYER_ATTACK_DAMAGE]
       ELSE [enemyMesh |-> em, enemyHealth |-> eh]

\* playerAttack (lines 270-287): the new enemyMesh and enemyHealth for the
\* positions pm and em; fp is the outcome of the range test where the
\* estimates leave it open.
playerAttack(pm, em, eh, fp) ==
  IF ~em.defined \/ eh <= 0 THEN [enemyMesh |-> em, enemyHealth |-> eh]
  ELSE IF withinRange(pm, em, attackRange, fp)
       THEN IF eh - PLAYER_ATTACK_DAMAGE <= 0
            THEN [enemyMesh |-> Undefined, enemyHealth |-> 0]
            ELSE [enemyMesh |-> em, enemyHealth |-> eh - PLAYER_ATTACK_DAMAGE]
       ELSE [enemyMesh |-> em, enemyHealth |-> eh]

\* Mutant of enemyAttack: a hit takes twice ENEMY_DAMAGE.
enemyAttack_DoubleDamage(pm, em, ph, last, t, fp) ==
  IF ~em.defined THEN [playerHealth |-> ph, lastEnemyAttackTime |-> last]
  ELSE IF withinRange(pm, em, hitRange, fp) /\ t - last > ATTACK_INTERVAL
       THEN [playerHealth |-> IF ph - 2 * ENEMY_DAMAGE <= 0 THEN 0
                              ELSE ph - 2 * ENEMY_DAMAGE,
             lastEnemyAttackTime |-> t]
       ELSE [playerHealth |-> ph, lastEnemyAttackTime |-> last]

\* Mutant of enemyAttack: a hit does not record its time.
enemyAttack_KeepsTimestamp(pm, em, ph, last, t, fp) ==
  IF ~em.defined THEN [playerHealth |-> ph, lastEnemyAttackTime |-> last]
  ELSE IF withinRange(pm, em, hitRange, fp) /\ t - last > ATTACK_INTERVAL
       THEN [playerHealth |-> IF ph - ENEMY_DAMAGE <= 0 THEN 0 ELSE ph - ENEMY_DAMAGE,
             lastEnemyAttackTime |-> last]
       ELSE [playerHealth |-> ph, lastEnemyAttackTime |-> last]

\* Mutant of enemyAttack: no cooldown test.
enemyAttack_NoCooldown(pm, em, ph, last, t, fp) ==
  IF ~em.defined THEN [playerHealth |-> ph, lastEnemyAttackTime |-> last]
  ELSE IF withinRange(pm, em, hitRange, fp)
       THEN [playerHealth |-> IF ph - ENEMY_DAMAGE <= 0 THEN 0 ELSE ph - ENEMY_DAMAGE,
             lastEnemyAttackTime |-> t]
       ELSE [playerHealth |-> ph, lastEnemyAttackTime |-> last]

\* enemyAttack (lines 290-311): the new playerHealth and lastEnemyAttackTime;
\* pm and em are the positions after the movement of the frame, t is
\* performance.now() and fp the outcome of the range test where the
\* estimates leave it open.
enemyAttack(pm, em, ph, last, t, fp) ==
  IF ~em.defined THEN [playerHealth |-> ph, lastEnemyAttackTime |-> last]
  ELSE IF withinRange(pm, em, hitRange, fp) /\ t - last > ATTACK_INTERVAL
       THEN [playerHealth |-> IF ph - ENEMY_DAMAGE <= 0 THEN 0 ELSE ph - ENEMY_DAMAGE,
             lastEnemyAttackTime |-> t]
       ELSE [playerHealth |-> ph, lastEnemyAttackTime |-> last]

\* Mutant of createPlayerAndEnemy: the enemy is given the player's maximum.
createPlayerAndEnemy_EnemyGetsPlayerMax(startRoomCenter, endRoomCenter) ==
  [playerMesh |-> [x |-> at(startRoomCenter.cx * UNIT),
                   z |-> at(startRoomCenter.cy * UNIT)],
   enemyMesh |-> [defined |-> TRUE, x |-> at(endRoomCenter.cx * UNIT),
                  z |-> at(endRoomCenter.cy * UNIT)],
   playerHealth |-> PLAYER_MAX_HEALTH,
   enemyHealth |-> PLAYER_MAX_HEALTH]

\* Mutant of createPlayerAndEnemy: the enemy is placed in the start room.
createPlayerAndEnemy_EnemyAtStart(startRoomCenter, endRoomCenter) ==
  [playerMesh |-> [x |-> at(startRoomCenter.cx * UNIT),
                   z |-> at(startRoomCenter.cy * UNIT)],
   enemyMesh |-> [defined |-> TRUE, x |-> at(startRoomCenter.cx * UNIT),
                  z |-> at(startRoomCenter.cy * UNIT)],
   playerHealth |-> PLAYER_MAX_HEALTH,
   enemyHealth |-> ENEMY_MAX_HEALTH]

\* createPlayerAndEnemy (lines 240-261): the actors at the room centers,
\* which are integers and so exact.
createPlayerAndEnemy(startRoomCenter, endRoomCenter) ==
  [playerMesh |-> [x |-> at(startRoomCenter.cx * UNIT),
                   z |-> at(startRoomCenter.cy * UNIT)],
   enemyMesh |-> [defined |-> TRUE, x |-> at(endRoomCenter.cx * UNIT),
                  z |-> at(endRoomCenter.cy * UNIT)],
   playerHealth |-> PLAYER_MAX_HEALTH,
   enemyHealth |-> ENEMY_MAX_HEALTH]

\* clock.getDelta() at time t (line 342): the first call starts the clock and
\* returns 0; later calls return the time since the previous call.
getDelta(c, t) == IF c.running THEN t - c.oldTime ELSE 0

\* ------------------------------------------------------------------------
\* Inputs of the model

\* Random sources: each is the sequence of Math.random() draws of one
\* generateDungeon call (four per placement attempt, then one per corridor).
\* SeedA and SeedB repeat one draw, so every attempt after the first overlaps
\* the first room and one 6x6 room results: cells 18..23 (center 21) and cells
\* 20..25 (center 23) on both axes.  SeedC places two 3x3 rooms in one row
\* (centers (6,6) and (10,6)) and rejects the other four attempts.
NumDraws == 4 * MAX_ROOMS + (MAX_ROOMS - 1)
SeedA == [i \in 1 .. NumDraws |-> 800]
SeedB == [i \in 1 .. NumDraws |-> 900]
SeedC == <<0, 0, 160, 160,  0, 0, 320, 160,  0, 0, 160, 160,  0, 0, 320, 160,
           0, 0, 160, 160,  0, 0, 320, 160,  700, 0, 0, 0, 0>>
Seeds == <<SeedA, SeedB, SeedC>>

\* Frame durations in milliseconds, and the latest time explored.
Deltas == {500, 1000}
MaxTime == 16500

\* The movement keys: up (w, W, ArrowUp), down (s, S, ArrowDown), left (a, A,
\* ArrowLeft) and right (d, D, ArrowRight).
AllKeys == {"up", "down", "left", "right"}

\* The sessions explored with every movement key run up to the time PlayEnd
\* and take up to MaxKeyEvents keydown and keyup events of movement keys.
PlayEnd == 3000
MaxKeyEvents == 3

\* The movement keys of the sessions explored up to MaxTime, in which the
\* player moves along the row of its room.
RowKeys == {"left"}

\* The dungeons of the random sources, each generated with the program's
\* constants (lines 324 and 432).
Dungeons ==
  [i \in DOMAIN Seeds |->
     generateDungeon(DUNGEON_WIDTH, DUNGEON_HEIGHT, MAX_ROOMS,
                     ROOM_MIN_SIZE, ROOM_MAX_SIZE, Seeds[i])]

\* ------------------------------------------------------------------------
\* State
\* generateDungeon is a function of its random draws, so the state records
\* which random source each generateDungeon call used and the grids are
\* state functions of that.

\* The value of gen while no generateDungeon call is being followed.
Idle == [phase |-> "idle"]

\* performance.now() when the startup script runs, in milliseconds
LoadTimes == {500, 1500}

VARIABLES
  startupSource,        \* the random source of the call at startup (line 432)
  lastSource,           \* the random source of the latest call (line 432 or 324)
  playerMesh,           \* playerMesh.position
  enemyMesh,            \* enemyMesh.position, or Undefined
  playerHealth,
  enemyHealth,
  lastEnemyAttackTime,
  keys,                 \* held movement keys
  clock,                \* THREE.Clock: [running, oldTime]
  now,                  \* performance.now(), in milliseconds
  op,                   \* history: the handler that ran last
  hits,                 \* history: successful enemy attacks since the actors
                        \* were last created
  keyEvents,            \* history: keydown and keyup events of movement keys
  gen                   \* the generateDungeon call in progress, or Idle

vars == <<startupSource, lastSource, playerMesh, enemyMesh, playerHealth, enemyHealth,
          lastEnemyAttackTime, keys, clock, now, op, hits, keyEvents, gen>>

\* const dungeonGrid = dungeonData.grid (line 433): assigned once, at startup.
dungeonGrid == Dungeons[startupSource].grid

\* The dungeon generated last: dungeonData at startup (line 432), the local
\* dungeon of the latest restartGame afterwards (line 324).  It is the dungeon
\* whose room centers the actors were last placed at.
dungeon == Dungeons[lastSource]

\* Startup (lines 431-444), run at the time t0 after page load.  Its last
\* statement is the first call of animate (line 444): playerHealth is
\* PLAYER_MAX_HEALTH, so the frame runs; getDelta starts the clock and returns
\* 0, so nobody moves; enemyAttack runs with performance.now() = t0.
Init ==
  \E i \in DOMAIN Seeds, t0 \in LoadTimes :
    LET dungeonData == Dungeons[i]
        startRoom == IF Len(dungeonData.rooms) > 0 THEN dungeonData.rooms[1]
                     ELSE [cx |-> DUNGEON_WIDTH \div 2, cy |-> DUNGEON_HEIGHT \div 2]
        endRoom == IF Len(dungeonData.rooms) > 0
                   THEN dungeonData.rooms[Len(dungeonData.rooms)] ELSE startRoom
        c == createPlayerAndEnemy(startRoom, endRoom)
        noKeys == [k \in AllKeys |-> FALSE]
        deltaTime == getDelta([running |-> FALSE, oldTime |-> 0], t0)
    IN  \E pm \in playerMove(dungeonData.grid, c.playerMesh, noKeys, deltaTime) :
        \E em \in enemyMove(dungeonData.grid, c.enemyMesh, pm, deltaTime) :
        \E fp \in roundings(pm, em, hitRange) :
          LET a == enemyAttack(pm, em, c.playerHealth, 0, t0, fp)
          IN  /\ startupSource = i
              /\ lastSource = i
              /\ playerMesh = pm
              /\ enemyMesh = em
              /\ playerHealth = a.playerHealth
              /\ enemyHealth = c.enemyHealth
              /\ lastEnemyAttackTime = a.lastEnemyAttackTime
              /\ keys = noKeys
              /\ clock = [running |-> TRUE, oldTime |-> t0]
              /\ now = t0
              /\ op = "init"
              /\ hits = IF a.lastEnemyAttackTime # 0 THEN 1 ELSE 0
              /\ keyEvents = 0
              /\ gen = Idle

\* keydown / keyup of a movement key (lines 65-85 and 97-119)
KeyDown(k) ==
  /\ keys' = [keys EXCEPT ![k] = TRUE]
  /\ op' = "keydown"
  /\ keyEvents' = keyEvents + 1
  /\ UNCHANGED <<startupSource, lastSource, playerMesh, enemyMesh, playerHealth,
                 enemyHealth, lastEnemyAttackTime, clock, now, hits, gen>>

KeyUp(k) ==
  /\ keys' = [keys EXCEPT ![k] = FALSE]
  /\ op' = "keyup"
  /\ keyEvents' = keyEvents + 1
  /\ UNCHANGED <<startupSource, lastSource, playerMesh, enemyMesh, playerHealth,
                 enemyHealth, lastEnemyAttackTime, clock, now, hits, gen>>

\* keydown of the space bar (lines 86-88)
KeySpace ==
  \E fp \in roundings(playerMesh, enemyMesh, attackRange) :
    LET a == playerAttack(playerMesh, enemyMesh, enemyHealth, fp)
    IN  /\ enemyMesh' = a.enemyMesh
        /\ enemyHealth' = a.enemyHealth
        /\ op' = "space"
        /\ UNCHANGED <<startupSource, lastSource, playerMesh, playerHealth,
                       lastEnemyAttackTime, keys, clock, now, hits, keyEvents, gen>>

\* restartGame (lines 314-334) with the random source Seeds[i].  The new
\* dungeon is a local of restartGame; dungeonGrid is a const and keeps the
\* startup grid.
restartGame(i) ==
  LET newDungeon == Dungeons[i]
      startCenter == newDungeon.rooms[1]
      endCenter == newDungeon.rooms[Len(newDungeon.rooms)]
      c == createPlayerAndEnemy(startCenter, endCenter)
  IN  /\ lastSource' = i
      /\ playerMesh' = c.playerMesh
      /\ enemyMesh' = c.enemyMesh
      /\ playerHealth' = c.playerHealth
      /\ enemyHealth' = c.enemyHealth
      /\ hits' = 0
      /\ UNCHANGED <<startupSource, lastEnemyAttackTime, keys, clock, now, keyEvents, gen>>

\* Mutant of KeyR: the restart is not gated by playerHealth <= 0.
KeyR_Unguarded ==
  /\ op' = "keyR"
  /\ \E i \in DOMAIN Seeds : restartGame(i)

\* keydown of R (lines 89-94)
KeyR ==
  /\ op' = "keyR"
  /\ \/ /\ playerHealth <= 0
        /\ \E i \in DOMAIN Seeds : restartGame(i)
     \/ /\ ~(playerHealth <= 0)
        /\ UNCHANGED <<startupSource, lastSource, playerMesh, enemyMesh, playerHealth,
                       enemyHealth, lastEnemyAttackTime, keys, clock, now, hits, keyEvents, gen>>

\* Mutant of animate: the game logic also runs when playerHealth is 0.
animate_NoGameOverGuard(dt) ==
  /\ now + dt <= MaxTime
  /\ now' = now + dt
  /\ op' = "animate"
  /\ LET deltaTime == getDelta(clock, now')
     IN  \E pm \in playerMove(dungeonGrid, playerMesh, keys, deltaTime) :
         \E em \in IF enemyMesh.defined
                    THEN enemyMove(dungeonGrid, enemyMesh, pm, deltaTime)
                    ELSE {enemyMesh} :
         \E fp \in roundings(pm, em, hitRange) :
           LET a == enemyAttack(pm, em, playerHealth, lastEnemyAttackTime, now', fp)
           IN  /\ clock' = [running |-> TRUE, oldTime |-> now']
               /\ playerMesh' = pm
               /\ enemyMesh' = em
               /\ playerHealth' = a.playerHealth
               /\ lastEnemyAttackTime' = a.lastEnemyAttackTime
               /\ hits' = IF a.lastEnemyAttackTime # lastEnemyAttackTime
                          THEN hits + 1 ELSE hits
  /\ UNCHANGED <<startupSource, lastSource, enemyHealth, keys, keyEvents, gen>>

\* One frame (animate, lines 337-426), dt milliseconds after the previous one.
animate(dt) ==
  /\ now + dt <= MaxTime
  /\ now' = now + dt
  /\ op' = "animate"
  /\ \/ /\ playerHealth > 0
        /\ LET deltaTime == getDelta(clock, now')
           IN  \E pm \in playerMove(dungeonGrid, playerMesh, keys, deltaTime) :
               \E em \in IF enemyMesh.defined
                          THEN enemyMove(dungeonGrid, enemyMesh, pm, deltaTime)
                          ELSE {enemyMesh} :
               \E fp \in roundings(pm, em, hitRange) :
                 LET a == enemyAttack(pm, em, playerHealth, lastEnemyAttackTime,
                                      now', fp)
                 IN  /\ clock' = [running |-> TRUE, oldTime |-> now']
                     /\ playerMesh' = pm
                     /\ enemyMesh' = em
                     /\ playerHealth' = a.playerHealth
                     /\ lastEnemyAttackTime' = a.lastEnemyAttackTime
                     /\ hits' = IF a.lastEnemyAttackTime # lastEnemyAttackTime
                                THEN hits + 1 ELSE hits
        /\ UNCHANGED <<startupSource, lastSource, enemyHealth, keys, keyEvents, gen>>
     \/ /\ ~(playerHealth > 0)
        /\ UNCHANGED <<startupSource, lastSource, playerMesh, enemyMesh, playerHealth,
                       enemyHealth, lastEnemyAttackTime, keys, clock, hits, keyEvents, gen>>

\* The session, every handler taking its turn: a frame, keydown or keyup of
\* any movement key, the space bar, R.
Next ==
  \/ \E dt \in Deltas : now + dt <= PlayEnd /\ animate(dt)
  \/ \E k \in AllKeys : keyEvents < MaxKeyEvents /\ KeyDown(k)
  \/ \E k \in AllKeys : keyEvents < MaxKeyEvents /\ KeyUp(k)
  \/ KeySpace
  \/ KeyR

Spec == Init /\ [][Next]_vars

\* The session over the time ten enemy attacks and a restart take, the
\* player pressing no movement key but left.
RowNext ==
  \/ \E dt \in Deltas : animate(dt)
  \/ \E k \in RowKeys : keyEvents < MaxKeyEvents /\ KeyDown(k)
  \/ \E k \in RowKeys : keyEvents < MaxKeyEvents /\ KeyUp(k)
  \/ KeySpace
  \/ KeyR

RowSpec == Init /\ [][RowNext]_vars

\* ------------------------------------------------------------------------
\* Properties

\* Everything but the history variables.
gameState == <<startupSource, lastSource, playerMesh, enemyMesh, playerHealth,
               enemyHealth, lastEnemyAttackTime, keys, clock, now>>

\* Every cell the position can round to is Floor.
OnFloor(grid, pos) ==
  \A cellX \in cellsOf(pos.x), cellZ \in cellsOf(pos.z) : IsFloor(grid, cellX, cellZ)

RoomPosition(room) == [x |-> at(room.cx * UNIT), z |-> at(room.cy * UNIT)]

SamePlace(pos, q) == pos.x = q.x /\ pos.z = q.z

\* The estimates of the differences dx and dz of two positions span a
\* rectangle.  Its corners, as <<dx, dz>>: dx*dx + dz*dz is greatest at one
\* of them.
GapCorners(p, e) ==
  {p.x.lo - e.x.hi, p.x.hi - e.x.lo} \X {p.z.lo - e.z.hi, p.z.hi - e.z.lo}

\* The member of lo .. hi nearest to 0.
Nearest(lo, hi) == IF lo > 0 THEN lo ELSE IF hi < 0 THEN hi ELSE 0

\* dx*dx + dz*dz <= range * range for every double the estimates admit:
\* for exact coordinates the comparison itself, for others with a
\* subdivision to spare at every corner.
Within(p, e, range) ==
  \A g \in GapCorners(p, e) :
    IF {p.x.kind, p.z.kind, e.x.kind, e.z.kind} = {"exact"}
    THEN g[1] * g[1] + g[2] * g[2] <= range * range
    ELSE g[1] * g[1] + g[2] * g[2] < range * range

\* dx*dx + dz*dz > range * range for every double the estimates admit: it
\* is so where both differences are nearest to 0.
Beyond(p, e, range) ==
  LET dx == Nearest(p.x.lo - e.x.hi, p.x.hi - e.x.lo)
      dz == Nearest(p.z.lo - e.z.hi, p.z.hi - e.z.lo)
  IN  dx * dx + dz * dz > range * range

EnemyInHitRange == enemyMesh.defined /\ Within(playerMesh, enemyMesh, hitRange)

\* C1: in every reachable state, the position of each existing alive actor
\* rounds (floor(v + 0.5) per coordinate) to an in-bounds Floor cell of the
\* grid generated at startup or by the most recent restart.
C1_ActorsOnFloorOfLatestDungeon ==
  /\ playerHealth > 0 => OnFloor(dungeon.grid, playerMesh)
  /\ (enemyMesh.defined /\ enemyHealth > 0) => OnFloor(dungeon.grid, enemyMesh)

\* C2: after a restart, the wall-collision checks of every later tick are
\* evaluated against the grid that restart generated: a Playing tick moves
\* the player as the collision rule does on the latest grid.
C2_TicksCollideWithLatestGrid ==
  [][(op' = "animate" /\ playerHealth > 0)
       => playerMesh' \in playerMove(dungeon.grid, playerMesh, keys,
                                     getDelta(clock, now'))]_vars

\* C3: the session is Playing (playerHealth > 0) or GameOver (playerHealth =
\* 0) and nothing else; Playing -> GameOver happens only in a tick whose
\* enemy attack brings playerHealth to <= 0; GameOver -> Playing happens only
\* through the R key; the R key while Playing changes nothing.
C3_SessionStateMachine ==
  /\ [](playerHealth >= 0)
  /\ [][/\ (playerHealth > 0 /\ playerHealth' = 0)
             => /\ op' = "animate"
                /\ lastEnemyAttackTime' = now'
                /\ playerHealth - ENEMY_DAMAGE <= 0
        /\ (playerHealth = 0 /\ playerHealth' > 0) => op' = "keyR"
        /\ (op' = "keyR" /\ playerHealth > 0) => UNCHANGED gameState]_vars

\* A restart has just followed the tick whose attack ended the game.
C3_Witness ==
  /\ op = "keyR"
  /\ playerHealth = PLAYER_MAX_HEALTH
  /\ lastEnemyAttackTime = now
  /\ now > 0

\* C4: while GameOver, a tick leaves the player position, the enemy position,
\* both healths and the enemy-attack timestamp unchanged, whatever the keys
\* and the elapsed time.
C4_GameOverTickFrozen ==
  [][(op' = "animate" /\ playerHealth = 0)
       => UNCHANGED <<playerMesh, enemyMesh, playerHealth, enemyHealth,
                      lastEnemyAttackTime>>]_vars

\* A tick has run after the killing attack, with a movement key held and the
\* enemy still in range.
C4_Witness ==
  /\ op = "animate"
  /\ playerHealth = 0
  /\ now > lastEnemyAttackTime
  /\ keys.left
  /\ EnemyInHitRange

\* C5 as stated: in a Playing tick, an alive enemy within squared distance
\* 1.0 of the player after the tick's movement, with now - lastEnemyAttackTime
\* >= ATTACK_INTERVAL (1000 included), takes ENEMY_DAMAGE off the player and
\* sets the timestamp to now.
C5_AttackAtInterval ==
  [][(/\ op' = "animate"
      /\ playerHealth > 0
      /\ enemyMesh'.defined
      /\ enemyHealth > 0
      /\ Within(playerMesh', enemyMesh', hitRange)
      /\ now' - lastEnemyAttackTime >= ATTACK_INTERVAL)
       => /\ playerHealth' = playerHealth - ENEMY_DAMAGE
          /\ lastEnemyAttackTime' = now']_vars

\* C5 amended: the same with more than ATTACK_INTERVAL milliseconds elapsed
\* (now - lastEnemyAttackTime > 1000).
C5_AttackAfterInterval ==
  [][(/\ op' = "animate"
      /\ playerHealth > 0
      /\ enemyMesh'.defined
      /\ enemyHealth > 0
      /\ Within(playerMesh', enemyMesh', hitRange)
      /\ now' - lastEnemyAttackTime > ATTACK_INTERVAL)
       => /\ playerHealth' = playerHealth - ENEMY_DAMAGE
          /\ lastEnemyAttackTime' = now']_vars

\* The tick that just ran landed the first hit, on a player that two held
\* keys have moved off the row and off the column of the enemy.
C5_Witness ==
  /\ op = "animate"
  /\ lastEnemyAttackTime = now
  /\ playerHealth = PLAYER_MAX_HEALTH - ENEMY_DAMAGE
  /\ EnemyInHitRange
  /\ Beyond(playerMesh, enemyMesh, 0)
  /\ Nearest(playerMesh.x.lo - enemyMesh.x.hi, playerMesh.x.hi - enemyMesh.x.lo) # 0
  /\ Nearest(playerMesh.z.lo - enemyMesh.z.hi, playerMesh.z.hi - enemyMesh.z.lo) # 0

\* C6: an enemy attack attempted less than ATTACK_INTERVAL milliseconds after
\* the last successful one leaves playerHealth and the timestamp unchanged,
\* also in range and also across restarts; so two successful attacks are at
\* least ATTACK_INTERVAL apart.
C6_CooldownRejects ==
  [][/\ (op' = "animate" /\ now' - lastEnemyAttackTime < ATTACK_INTERVAL)
          => UNCHANGED <<playerHealth, lastEnemyAttackTime>>
     /\ lastEnemyAttackTime' # lastEnemyAttackTime
          => lastEnemyAttackTime' - lastEnemyAttackTime >= ATTACK_INTERVAL]_vars

\* After a restart (full health although an attack has landed before), a tick
\* ran inside the cooldown with the enemy in range.
C6_Witness ==
  /\ op = "animate"
  /\ playerHealth = PLAYER_MAX_HEALTH
  /\ lastEnemyAttackTime > 0
  /\ now - lastEnemyAttackTime < ATTACK_INTERVAL
  /\ clock.oldTime = now
  /\ EnemyInHitRange

\* The test of lines 271-272 passes: there is an enemy and it has health left.
EnemyAlive == enemyMesh.defined /\ enemyHealth > 0

\* The press is a hit (lines 279-285): 50 off enemyHealth, clamped at 0, and
\* an enemy left at 0 is removed.
PlayerAttackHit ==
  /\ enemyHealth' = Max(enemyHealth - PLAYER_ATTACK_DAMAGE, 0)
  /\ enemyHealth' < enemyHealth
  /\ enemyMesh' = IF enemyHealth' = 0 THEN Undefined ELSE enemyMesh

\* C7: playerAttack changes state exactly when an enemy exists with health >
\* 0 and dx*dx + dz*dz <= 1.5*1.5 (distance exactly 1.5 hits, any larger
\* distance misses); a hit takes 50 off enemyHealth, clamped at 0, and
\* removes an enemy left at 0; nothing else (no cooldown, not the session
\* state) decides it, and nothing else changes.  Where the estimates of the
\* coordinates admit doubles on both sides of the range, the press has one
\* of the two outcomes.
C7_PlayerAttack ==
  [][op' = "space"
       => /\ UNCHANGED <<startupSource, lastSource, playerMesh, playerHealth,
                         lastEnemyAttackTime, keys, clock, now, hits, keyEvents>>
          /\ (EnemyAlive /\ Within(playerMesh, enemyMesh, attackRange))
               => PlayerAttackHit
          /\ (~EnemyAlive \/ Beyond(playerMesh, enemyMesh, attackRange))
               => UNCHANGED <<enemyMesh, enemyHealth>>
          /\ PlayerAttackHit \/ UNCHANGED <<enemyMesh, enemyHealth>>]_vars

\* C8: an enemy at health 0 is removed, and from then until the next restart
\* a player attack changes nothing, no tick moves an enemy and no tick
\* reduces playerHealth.
C8_DeadEnemyInert ==
  /\ [](enemyHealth = 0 => ~enemyMesh.defined)
  /\ [][enemyHealth = 0
          => \/ op' = "keyR" /\ playerHealth = 0
             \/ /\ UNCHANGED <<enemyMesh, enemyHealth, playerHealth>>
                /\ op' = "space" => UNCHANGED gameState]_vars

\* A Playing tick has run with the enemy already defeated, the player having
\* been hit before.
C8_Witness ==
  /\ op = "animate"
  /\ enemyHealth = 0
  /\ playerHealth > 0
  /\ playerHealth < PLAYER_MAX_HEALTH
  /\ clock.oldTime = now
  /\ now - lastEnemyAttackTime > ATTACK_INTERVAL

\* C9: playerHealth is an integer in [0, PLAYER_MAX_HEALTH], enemyHealth an
\* integer in [0, ENEMY_MAX_HEALTH], and the enemy exists exactly when
\* enemyHealth > 0.
C9_HealthBounds ==
  /\ playerHealth \in 0 .. PLAYER_MAX_HEALTH
  /\ enemyHealth \in 0 .. ENEMY_MAX_HEALTH
  /\ enemyMesh.defined <=> enemyHealth > 0

\* After a restart the enemy has been defeated again.
C9_Witness ==
  /\ lastSource # startupSource
  /\ enemyHealth = 0
  /\ ~enemyMesh.defined
  /\ playerHealth = PLAYER_MAX_HEALTH
  /\ lastEnemyAttackTime > 0

\* C10: a restart in GameOver leaves playerHealth = 100, an existing enemy
\* with health 50, the player at the center of rooms[0] and the enemy at the
\* center of the last room of the dungeon that restart generated.
C10_RestartResets ==
  [][(op' = "keyR" /\ playerHealth = 0)
       => /\ \E i \in DOMAIN Seeds :
               dungeon' = generateDungeon(DUNGEON_WIDTH, DUNGEON_HEIGHT, MAX_ROOMS,
                                          ROOM_MIN_SIZE, ROOM_MAX_SIZE, Seeds[i])
          /\ playerHealth' = PLAYER_MAX_HEALTH
          /\ enemyMesh'.defined
          /\ enemyHealth' = ENEMY_MAX_HEALTH
          /\ SamePlace(playerMesh', RoomPosition(dungeon'.rooms[1]))
          /\ SamePlace(enemyMesh', RoomPosition(dungeon'.rooms[Len(dungeon'.rooms)]))]_vars

\* A restart has just generated a dungeon of several rooms, other than the
\* startup one.
C10_Witness ==
  /\ op = "keyR"
  /\ lastSource # startupSource
  /\ lastEnemyAttackTime = now
  /\ playerHealth = PLAYER_MAX_HEALTH
  /\ Len(dungeon.rooms) > 1
  /\ ~SamePlace(enemyMesh, playerMesh)

\* ------------------------------------------------------------------------
\* One generateDungeon call, followed iteration by iteration

\* The parameters and the draws explored: room sizes GenRoomMin..GenRoomMax,
\* up to GenMaxRooms attempts, a grid of the least size roomMax + 3 and a
\* larger one (<<width, height>>), and Math.random() draws that select every
\* room size and both corridor orders (SizeDraws) and every offset in these
\* grids (OffsetDraws).
GenRoomMin == 2
GenRoomMax == 3
GenMaxRooms == 2
GenSizes == {<<GenRoomMax + 3, GenRoomMax + 3>>, <<GenRoomMax + 5, GenRoomMax + 4>>}
SizeDraws == {0, 500}
OffsetDraws == {0, 250, 500, 750}

\* The cells carveRoom(x, y, w, h) assigns (lines 137-143), as <<x, y>>.
roomCells(x, y, w, h) ==
  {<<xx, yy>> : xx \in x .. x + w - 1, yy \in y .. y + h - 1}

\* The cells the corridor loops assign for the pair r1, r2 (lines 173-203).
corridorCells(r1, r2, coin) ==
  IF 2 * coin < RandDen
  THEN {<<x, r1.cy>> : x \in Min(r1.cx, r2.cx) .. Max(r1.cx, r2.cx)}
         \cup {<<r2.cx, y>> : y \in Min(r1.cy, r2.cy) .. Max(r1.cy, r2.cy)}
  ELSE {<<r1.cx, y>> : y \in Min(r1.cy, r2.cy) .. Max(r1.cy, r2.cy)}
         \cup {<<x, r2.cy>> : x \in Min(r1.cx, r2.cx) .. Max(r1.cx, r2.cx)}

\* The state of a call on entry (lines 126-134).  i counts the placement
\* attempts made, j is the index of the next room to connect to its
\* predecessor; attempt, rects and written are history: the latest candidate,
\* the accepted rectangles and every cell assigned so far.
generateDungeonEntry(width, height, maxRooms, roomMin, roomMax) ==
  [phase |-> "generateDungeon",
   width |-> width, height |-> height, maxRooms |-> maxRooms,
   roomMin |-> roomMin, roomMax |-> roomMax,
   grid |-> WallGrid(width, height), rooms |-> <<>>, i |-> 0, j |-> 2,
   attempt |-> [made |-> FALSE], rects |-> <<>>, written |-> {}]

\* Every variable but gen.
sessionVars == <<startupSource, lastSource, playerMesh, enemyMesh, playerHealth,
                 enemyHealth, lastEnemyAttackTime, keys, clock, now, op, hits, keyEvents>>

\* The globals as declared (lines 21-28), before startup has generated a
\* dungeon, created the actors or started the clock.
Declared ==
  /\ startupSource = 0
  /\ lastSource = 0
  /\ playerMesh = Undefined
  /\ enemyMesh = Undefined
  /\ playerHealth = PLAYER_MAX_HEALTH
  /\ enemyHealth = ENEMY_MAX_HEALTH
  /\ lastEnemyAttackTime = 0
  /\ keys = [k \in AllKeys |-> FALSE]
  /\ clock = [running |-> FALSE, oldTime |-> 0]
  /\ now = 0
  /\ op = "init"
  /\ hits = 0
  /\ keyEvents = 0

GenInit ==
  /\ Declared
  /\ \E size \in GenSizes : \E maxRooms \in 0 .. GenMaxRooms :
       gen = generateDungeonEntry(size[1], size[2], maxRooms, GenRoomMin, GenRoomMax)

\* One iteration of the placement loop (lines 146-168) with the draws r1..r4.
GenPlace(r1, r2, r3, r4) ==
  /\ gen.phase = "generateDungeon"
  /\ gen.i < gen.maxRooms
  /\ LET rnd == <<r1, r2, r3, r4>>
         c == candidateRoom(rnd, 0, gen.width, gen.height, gen.roomMin, gen.roomMax)
         st == placeRoom([grid |-> gen.grid, rooms |-> gen.rooms, k |-> 0], rnd,
                         gen.width, gen.height, gen.roomMin, gen.roomMax)
         accepted == Len(st.rooms) > Len(gen.rooms)
     IN  gen' = [gen EXCEPT
                   !.grid = st.grid,
                   !.rooms = st.rooms,
                   !.i = @ + 1,
                   !.attempt = [made |-> TRUE, x |-> c.x, y |-> c.y, w |-> c.w,
                                h |-> c.h, accepted |-> accepted],
                   !.rects = IF accepted THEN Append(@, c) ELSE @,
                   !.written = IF accepted THEN @ \cup roomCells(c.x, c.y, c.w, c.h)
                               ELSE @]
  /\ UNCHANGED sessionVars

\* One iteration of the corridor loop (lines 172-204) with the draw coin.
GenConnect(coin) ==
  /\ gen.phase = "generateDungeon"
  /\ gen.i = gen.maxRooms
  /\ gen.j <= Len(gen.rooms)
  /\ LET r1 == gen.rooms[gen.j - 1]
         r2 == gen.rooms[gen.j]
     IN  gen' = [gen EXCEPT
                   !.grid = carveCorridor(@, r1, r2, coin),
                   !.j = @ + 1,
                   !.written = @ \cup corridorCells(r1, r2, coin)]
  /\ UNCHANGED sessionVars

GenNext ==
  \/ \E r1, r2 \in SizeDraws : \E r3, r4 \in OffsetDraws : GenPlace(r1, r2, r3, r4)
  \/ \E coin \in SizeDraws : GenConnect(coin)

GenSpec == GenInit /\ [][GenNext]_vars

\* The call has reached its return statement (line 207).
GenReturned ==
  /\ gen.phase = "generateDungeon"
  /\ gen.i = gen.maxRooms
  /\ gen.j > Len(gen.rooms)

\* ------------------------------------------------------------------------
\* Properties of generateDungeon

InGrid(cell) ==
  /\ cell[1] \in 0 .. gen.width - 1
  /\ cell[2] \in 0 .. gen.height - 1

OnBorder(cell) ==
  \/ cell[1] \in {0, gen.width - 1}
  \/ cell[2] \in {0, gen.height - 1}

GridCells == (0 .. gen.width - 1) \X (0 .. gen.height - 1)

\* C11: in a generateDungeon call with width and height at least roomMax + 3,
\* for every outcome of the draws, every cell assigned by room carving or
\* corridor carving is inside the grid, and no cell of row 0, row height - 1,
\* column 0 or column width - 1 is Floor, at any point of the call and so in
\* the returned grid.
C11_WritesInGridBorderWall ==
  (gen.phase = "generateDungeon" /\ gen.width >= gen.roomMax + 3
     /\ gen.height >= gen.roomMax + 3)
    => /\ \A cell \in gen.written : InGrid(cell)
       /\ \A cell \in GridCells : OnBorder(cell) => gen.grid[cell[2]][cell[1]] = 0

\* A returned grid with two rooms and their corridor, one of them at the
\* least offset, next to the border.
C11_Witness ==
  /\ GenReturned
  /\ Len(gen.rooms) = 2
  /\ \E cell \in gen.written : cell[1] = 1 /\ gen.grid[cell[2]][cell[1]] = 1

\* The step is one placement attempt of the call.
PlacementAttempt ==
  /\ gen.phase = "generateDungeon"
  /\ gen'.i = gen.i + 1

Disjoint(r, q) == roomCells(r.x, r.y, r.w, r.h) \cap roomCells(q.x, q.y, q.w, q.h) = {}

\* C12: for every outcome of the draws, a candidate is carved exactly when
\* none of its cells is already Floor, a rejected candidate changes neither
\* the grid nor the rooms, and so the rectangles of any two accepted rooms of
\* one call have disjoint cell sets.
C12_AcceptedRoomsDisjoint ==
  [][PlacementAttempt
       => LET c == gen'.attempt
              cells == roomCells(c.x, c.y, c.w, c.h)
          IN  /\ c.accepted <=> \A cell \in cells : gen.grid[cell[2]][cell[1]] = 0
              /\ c.accepted
                   => /\ Len(gen'.rooms) = Len(gen.rooms) + 1
                      /\ \A cell \in cells : gen'.grid[cell[2]][cell[1]] = 1
              /\ ~c.accepted
                   => /\ gen'.grid = gen.grid
                      /\ gen'.rooms = gen.rooms
              /\ \A a, b \in DOMAIN gen'.rects :
                   a # b => Disjoint(gen'.rects[a], gen'.rects[b])]_vars

\* Two rooms have been accepted in one call.
C12_Witness ==
  /\ gen.phase = "generateDungeon"
  /\ Len(gen.rects) = 2
  /\ gen.attempt.accepted

Adjacent4(c, d) ==
  \/ c[1] = d[1] /\ (c[2] = d[2] + 1 \/ d[2] = c[2] + 1)
  \/ c[2] = d[2] /\ (c[1] = d[1] + 1 \/ d[1] = c[1] + 1)

FloorCells == {c \in GridCells : gen.grid[c[2]][c[1]] = 1}

\* The Floor cells joined to a cell of S by a path of 4-adjacent Floor cells.
RECURSIVE FloorReach(_)
FloorReach(S) ==
  LET T == S \cup {c \in FloorCells : \E d \in S : Adjacent4(c, d)}
  IN  IF T = S THEN S ELSE FloorReach(T)

CenterCell(room) == <<room.cx, room.cy>>

\* C13: once the corridor of a consecutive pair rooms[i-1], rooms[i] has been
\* carved, in either order of its legs, a path of 4-adjacent Floor cells joins
\* the two centers; and in the returned grid every Floor cell is joined by
\* such a path to the center of rooms[0].
C13_CorridorsConnect ==
  gen.phase = "generateDungeon"
    => /\ \A i \in 2 .. gen.j - 1 :
            /\ CenterCell(gen.rooms[i - 1]) \in FloorCells
            /\ CenterCell(gen.rooms[i]) \in FloorReach({CenterCell(gen.rooms[i - 1])})
       /\ (GenReturned /\ Len(gen.rooms) >= 1)
            => FloorCells = FloorReach({CenterCell(gen.rooms[1])})

\* A returned grid with two rooms that do not touch, their centers in
\* different rows and columns, joined by a corridor through former Wall.
C13_Witness ==
  /\ GenReturned
  /\ Len(gen.rooms) = 2
  /\ gen.rooms[1].cx # gen.rooms[2].cx
  /\ gen.rooms[1].cy # gen.rooms[2].cy
  /\ \E c \in gen.written :
       \A a \in DOMAIN gen.rects :
         c \notin roomCells(gen.rects[a].x, gen.rects[a].y, gen.rects[a].w, gen.rects[a].h)

\* C17: a call makes exactly maxRooms placement attempts, each counted once
\* whether accepted or not, so rooms is no longer than maxRooms; its entries
\* are the centers (floor(x + w/2), floor(y + h/2)) of the accepted rooms in
\* placement order, and each center is a Floor cell inside its own room's
\* rectangle.
C17_RoomsAreAcceptedCenters ==
  gen.phase = "generateDungeon"
    => /\ Len(gen.rooms) <= gen.i
       /\ gen.i <= gen.maxRooms
       /\ gen.j > 2 => gen.i = gen.maxRooms
       /\ Len(gen.rooms) = Len(gen.rects)
       /\ \A a \in DOMAIN gen.rooms :
            LET room == gen.rooms[a]
                r == gen.rects[a]
            IN  /\ room.cx = r.x + (r.w \div 2)
                /\ room.cy = r.y + (r.h \div 2)
                /\ CenterCell(room) \in roomCells(r.x, r.y, r.w, r.h)
                /\ CenterCell(room) \in FloorCells

\* A returned call in which one attempt was accepted, with odd width and
\* even height, and one was rejected.
C17_Witness ==
  /\ GenReturned
  /\ gen.maxRooms = 2
  /\ Len(gen.rooms) = 1
  /\ gen.rects[1].w = 3
  /\ gen.rects[1].h = 2
  /\ ~gen.attempt.accepted

\* The offsets drawOffset can return for some draw, for a room of the given
\* size along an axis of the given extent.
possibleOffsets(extent, size) == {drawOffset(r, extent, size) : r \in 0 .. RandDen - 1}

\* C18 as claimed: for a placement attempt of size (w, h), the possible
\* top-left positions are exactly 1 <= x <= width - w - 1 and
\* 1 <= y <= height - h - 1: each of them can be drawn and no other.
C18_OffsetsUpToBorder ==
  (gen.phase = "generateDungeon" /\ gen.attempt.made)
    => /\ possibleOffsets(gen.width, gen.attempt.w) = 1 .. gen.width - gen.attempt.w - 1
       /\ possibleOffsets(gen.height, gen.attempt.h) = 1 .. gen.height - gen.attempt.h - 1

\* C18 amended: for a placement attempt of size (w, h), the possible top-left
\* positions are exactly 1 <= x <= width - w - 2 and 1 <= y <= height - h - 2
\* (each of them can be drawn and no other), and the position of the attempt
\* is one of them.
C18_OffsetsLeaveTwoCells ==
  (gen.phase = "generateDungeon" /\ gen.attempt.made)
    => /\ possibleOffsets(gen.width, gen.attempt.w) = 1 .. gen.width - gen.attempt.w - 2
       /\ possibleOffsets(gen.height, gen.attempt.h) = 1 .. gen.height - gen.attempt.h - 2
       /\ gen.attempt.x \in possibleOffsets(gen.width, gen.attempt.w)
       /\ gen.attempt.y \in possibleOffsets(gen.height, gen.attempt.h)

\* An attempt drawn at the greatest offset on both axes, away from the least.
C18_Witness ==
  /\ gen.phase = "generateDungeon"
  /\ gen.attempt.made
  /\ gen.attempt.x = gen.width - gen.attempt.w - 2
  /\ gen.attempt.y = gen.height - gen.attempt.h - 2
  /\ gen.attempt.x > 1
  /\ gen.attempt.y > 1

\* C20: with maxRooms >= 1 and width and height at least roomMax + 3, the
\* first candidate is tested against an all-Wall grid and is accepted for every
\* outcome of the draws, so the call returns a non-empty rooms; the dungeons
\* restartGame is given have a first and a last room center to read.
C20_FirstRoomAccepted ==
  /\ (gen.phase = "generateDungeon" /\ gen.i >= 1)
       => /\ Len(gen.rooms) >= 1
          /\ gen.i = 1 => gen.attempt.accepted
  /\ (GenReturned /\ gen.maxRooms >= 1) => Len(gen.rooms) >= 1
  /\ \A i \in DOMAIN Seeds : Len(Dungeons[i].rooms) >= 1

\* A call with maxRooms = 1 has returned its single room.
C20_Witness ==
  /\ GenReturned
  /\ gen.maxRooms = 1
  /\ Len(gen.rooms) = 1

\* ------------------------------------------------------------------------
\* Frames of movement next to walls, and presses of the space bar

\* Positions in the dungeon of SeedC (rooms of cells 5..7 and 9..11 in rows
\* 5..7, joined by the corridor cell (8, 6)): in the corridor cell near its
\* lower right corner, in the first room next to the wall cell (8, 7), on the
\* lower edge of the first room, in the lower row of the second room, two
\* that doubles hold exactly, 1.5 apart in row 6, and one in the corridor
\* 0.9 and 1.2 away from the third on the two axes.
MovePositions ==
  {[x |-> 8400, z |-> 6400], [x |-> 7400, z |-> 6900],
   [x |-> 7000, z |-> 7400], [x |-> 10000, z |-> 7400],
   [x |-> 7000, z |-> 6000], [x |-> 8500, z |-> 6000],
   [x |-> 7900, z |-> 6200]}
MoveDeltas == {100, 200}

\* The time the frames explored run up to, in milliseconds.
MoveEnd == 300

\* A session on the dungeon of SeedC with the clock last read at 0, the
\* actors at any of the positions and any keys held, in play or in GameOver.
MoveInit ==
  /\ startupSource = 3
  /\ lastSource = 3
  /\ \E p \in MovePositions : playerMesh = [x |-> at(p.x), z |-> at(p.z)]
  /\ \E p \in MovePositions :
       enemyMesh = [defined |-> TRUE, x |-> at(p.x), z |-> at(p.z)]
  /\ playerHealth \in {0, PLAYER_MAX_HEALTH}
  /\ enemyHealth = ENEMY_MAX_HEALTH
  /\ lastEnemyAttackTime = 0
  /\ keys \in [AllKeys -> BOOLEAN]
  /\ clock = [running |-> TRUE, oldTime |-> 0]
  /\ now = 0
  /\ op = "init"
  /\ hits = 0
  /\ keyEvents = 0
  /\ gen = Idle

MoveTick(dt) ==
  /\ now + dt <= MoveEnd
  /\ animate(dt)

MoveNext ==
  \/ \E dt \in MoveDeltas : MoveTick(dt)
  \/ KeySpace

MoveSpec == MoveInit /\ [][MoveNext]_vars

\* A press of the space bar has hit the enemy after the player has moved on
\* both axes, to coordinates that are no whole subdivisions.
C7_Witness ==
  /\ op = "space"
  /\ enemyHealth = 0
  /\ ~enemyMesh.defined
  /\ now > 0
  /\ playerMesh.x.lo < playerMesh.x.hi
  /\ playerMesh.z.lo < playerMesh.z.hi

\* The step is a frame in play.
PlayingTick ==
  /\ op' = "animate"
  /\ playerHealth > 0

\* The grid cells the tests of a step s from pos can meet: those of the
\* coordinates before the step and of the new ones, <<oldX, oldZ, cellX,
\* cellZ>>.
TargetCells(pos, s) ==
  cellsOf(pos.x) \X cellsOf(pos.z) \X cellsOf(plus(pos.x, s.x))
    \X cellsOf(plus(pos.z, s.z))

Updated(pos, newPos, s, axis) == newPos[axis] = plus(pos[axis], s[axis])

Unchanged(pos, newPos, axis) == newPos[axis] = pos[axis]

\* The outcome claimed for an actor that moves from pos to newPos with the
\* step s: blocked on x only, it ends with z updated and x unchanged; blocked
\* on z only, with x updated and z unchanged, both target cells being taken
\* at the other coordinate as the frame found it.
ClaimedOutcome(pos, newPos, s, c) ==
  LET xFloor == IsFloor(dungeonGrid, c[3], c[2])
      zFloor == IsFloor(dungeonGrid, c[1], c[4])
  IN  /\ (~xFloor /\ zFloor)
           => (Unchanged(pos, newPos, "x") /\ Updated(pos, newPos, s, "z"))
      /\ (xFloor /\ ~zFloor)
           => (Updated(pos, newPos, s, "x") /\ Unchanged(pos, newPos, "z"))

\* The outcome of the amended claim: x is updated exactly when its target
\* cell is Floor, and z is updated exactly when its target cell is Floor,
\* that cell being taken at the x the x step has left (the updated x when
\* the x step has committed).
ResolvedOutcome(pos, newPos, s, c) ==
  LET xFloor == IsFloor(dungeonGrid, c[3], c[2])
      zAtOldX == IsFloor(dungeonGrid, c[1], c[4])
      zAtNewX == IsFloor(dungeonGrid, c[3], c[4])
  IN  /\ ~(Updated(pos, newPos, s, "x") /\ Unchanged(pos, newPos, "x"))
      /\ ~(Updated(pos, newPos, s, "z") /\ Unchanged(pos, newPos, "z"))
      /\ (~xFloor /\ zAtOldX)
           => (Unchanged(pos, newPos, "x") /\ Updated(pos, newPos, s, "z"))
      /\ (~xFloor /\ ~zAtOldX)
           => (Unchanged(pos, newPos, "x") /\ Unchanged(pos, newPos, "z"))
      /\ xFloor => Updated(pos, newPos, s, "x")
      /\ xFloor => (Unchanged(pos, newPos, "z") <=> ~zAtNewX)
      /\ xFloor => (Updated(pos, newPos, s, "z") <=> zAtNewX)

\* The player's step of the frame has nonzero components on both axes.
PlayerStepsOnBothAxes ==
  LET ps == playerStep(keys, getDelta(clock, now'))
  IN  ps.tryX /\ ps.tryZ /\ getDelta(clock, now') > 0

\* The enemy's step of the frame, toward the player as the frame has moved
\* it, has nonzero components on both axes whatever the doubles are.
EnemyStepsOnBothAxes ==
  /\ enemyMesh.defined
  /\ apart(enemyMesh, playerMesh') = {TRUE}
  /\ \A s \in enemyStep(enemyMesh, playerMesh', getDelta(clock, now')) :
       s.tryX /\ s.tryZ

\* C14 as claimed: in a frame in play, an actor whose step is nonzero on both
\* axes and whose x target cell (floor(newX + 0.5), floor(z + 0.5)) is not
\* Floor while its z target cell is Floor ends with z updated and x unchanged;
\* symmetrically, with the z target cell (floor(x + 0.5), floor(newZ + 0.5))
\* not Floor and the x target Floor, it ends with x updated and z unchanged.
\* The cells are some of those the coordinates of the frame can round to.
C14_AxesIndependent ==
  [][PlayingTick
       => LET deltaTime == getDelta(clock, now')
              ps == playerStep(keys, deltaTime)
          IN  /\ PlayerStepsOnBothAxes
                   => \E c \in TargetCells(playerMesh, ps) :
                        ClaimedOutcome(playerMesh, playerMesh', ps, c)
              /\ EnemyStepsOnBothAxes
                   => \E es \in enemyStep(enemyMesh, playerMesh', deltaTime) :
                        \E c \in TargetCells(enemyMesh, es) :
                          ClaimedOutcome(enemyMesh, enemyMesh', es, c)]_vars

\* C14 amended: in a frame in play, for an actor whose step is nonzero on
\* both axes, the x step is resolved first and the z step second, against
\* the x coordinate the x step has left.  If the x target cell
\* (floor(newX + 0.5), floor(z + 0.5)) is not Floor, x is unchanged and z is
\* updated exactly when the cell (floor(x + 0.5), floor(newZ + 0.5)) is Floor;
\* if the x target is Floor, x is updated, and z is left unchanged exactly
\* when the cell (floor(newX + 0.5), floor(newZ + 0.5)), taken at the updated
\* x, is not Floor.  The cells are some of those the coordinates of the
\* frame can round to, the same ones in every part of the rule.
C14_ZAfterX ==
  [][PlayingTick
       => LET deltaTime == getDelta(clock, now')
              ps == playerStep(keys, deltaTime)
          IN  /\ PlayerStepsOnBothAxes
                   => \E c \in TargetCells(playerMesh, ps) :
                        ResolvedOutcome(playerMesh, playerMesh', ps, c)
              /\ EnemyStepsOnBothAxes
                   => \E es \in enemyStep(enemyMesh, playerMesh', deltaTime) :
                        \E c \in TargetCells(enemyMesh, es) :
                          ResolvedOutcome(enemyMesh, enemyMesh', es, c)]_vars

\* After one frame of 100 ms with right and down held, the player has moved
\* on both axes from (8.4, 6.4) in the corridor cell (8, 6) into the cell
\* (9, 7), although the cell (8, 7) below the corridor is Wall; the enemy,
\* chasing it from (7.4, 6.9) on both axes, has been blocked on x by that
\* same Wall cell and has moved on z.
C14_Witness ==
  /\ op = "animate"
  /\ now = 100
  /\ playerHealth > 0
  /\ keys.right /\ keys.down /\ ~keys.left /\ ~keys.up
  /\ playerMesh.x.lo = 8612 /\ playerMesh.x.hi = 8613
  /\ playerMesh.z.lo = 6612 /\ playerMesh.z.hi = 6613
  /\ enemyMesh.defined
  /\ enemyMesh.x = at(7400)
  /\ enemyMesh.z.hi < 6900

\* ------------------------------------------------------------------------
\* The session with no key held but R, at frames 550 or 1100 ms apart

CombatDeltas == {550, 1100}

CombatNext ==
  \/ \E dt \in CombatDeltas : animate(dt)
  \/ KeyR

CombatSpec == Init /\ [][CombatNext]_vars

\* C15: from full health 100 at startup or restart, every successful enemy
\* attack lowers playerHealth by exactly 10 and nothing else changes it, so
\* after k successful attacks it is 100 - 10k (70 after three, which attacks
\* 1100 ms apart reach), and the session is in GameOver exactly from the 10th
\* successful attack.
C15_TenPerHit ==
  [][/\ hits' \in {0, hits, hits + 1}
     /\ (op' = "animate" /\ hits' = hits + 1)
          => playerHealth' = playerHealth - ENEMY_DAMAGE
     /\ (op' = "animate" /\ hits' = hits) => playerHealth' = playerHealth
     /\ hits' \in 0 .. 10
     /\ playerHealth' = PLAYER_MAX_HEALTH - ENEMY_DAMAGE * hits'
     /\ hits' = 3 => playerHealth' = 70
     /\ playerHealth' <= 0 <=> hits' = 10]_vars

\* After a startup at 500 ms, three attacks have succeeded, at 1600, 2700 and
\* 3800 ms.
C15_Witness ==
  /\ hits = 3
  /\ playerHealth = 70
  /\ lastEnemyAttackTime = 500 + 3 * 1100
  /\ now = 500 + 3 * 1100

\* C19: in every frame in play after the first, the deltaTime that scales the
\* movement of the player and the enemy is the time elapsed since the
\* preceding rendered frame (every call of animate renders a frame, line
\* 424); in particular the first frame in play after a restart does not
\* include the time spent in GameOver.
C19_DeltaIsFrameTime ==
  [][(PlayingTick /\ clock.running) => getDelta(clock, now') = now' - now]_vars

====
